---------------------------- MODULE Spec2Model ----------------------------
(***************************************************************************)
(* Signal fan-out broadcaster of py信号转发服务/app.py: the client registry *)
(* (_ws_clients under _ws_lock), broadcast_signal, the lazily started      *)
(* dispatch loop (_init_broadcast_loop / run_loop), broadcast_signal_async *)
(* and register_client.                                                    *)
(*                                                                         *)
(* Threads are interleaved at the points where the interpreter may switch  *)
(* threads between two accesses of a module global.  A `with _ws_lock:`    *)
(* block is one atomic step: no block of the source waits or performs I/O  *)
(* while it holds the lock.  A coroutine runs atomically, with respect to  *)
(* the other tasks of its event loop, from one `await` to the next.        *)
(***************************************************************************)
EXTENDS Integers, Sequences, FiniteSets, TLC

\* Number of calls of broadcast_signal_async (one HTTP request context each).
MaxRecords == 3
\* Number of client connections accepted by the websocket server.
NumHandles == 2

\* Longest ticker passed to map_ticker, and most lines of ticker_mapping.txt.
MaxTicker == 2
MaxLines == 1

Records == 1..MaxRecords
Handles == 1..NumHandles
\* A caller creates at most one thread, so thread (and loop) ids are records' ids.
ThreadIds == 1..MaxRecords

VARIABLES
    WS_ENABLED,              \* app.py:18, fixed at import
    phase,                   \* "boot" until the process serves requests
    ws_clients,              \* _ws_clients (app.py:144)
    broadcast_loop,          \* _broadcast_loop (app.py:148): 0 is None, else a loop id
    broadcast_loop_thread,   \* _broadcast_loop_thread (app.py:149): 0 is None
    thread,                  \* state of each Thread object made at app.py:215
    loopRunner,              \* loop id -> the thread inside its run_forever, or 0
    queue,                   \* loop id -> coroutines posted by run_coroutine_threadsafe
    pc,                      \* position of each broadcast_signal_async call
    bpc,                     \* position of each broadcast_signal coroutine
    ctx,                     \* who runs the coroutine: a loop id, 0 the caller, -1 nobody yet
    clients_copy,            \* clients_copy of each coroutine (app.py:187)
    idx,                     \* position of the for loop of app.py:190
    disconnected,            \* disconnected of each coroutine (app.py:180)
    cpc,                     \* position of each register_client coroutine
    ticker_mapping,          \* _ticker_mapping (app.py:32): upper-case symbol -> symbol
    config_file,             \* ticker_mapping.txt (app.py:45) as the process finds it
    TICKER_MAPPING,          \* the environment variable read at app.py:115
    load_state,              \* "boot", "loaded", or the exception load_ticker_mapping raised
    ticker,                  \* argument of the last call of map_ticker
    mapped_ticker,           \* what that call returned
    data,                    \* record -> the body of its webhook request (app.py:296)
    signal_data,             \* record -> the payload built at app.py:335
    response,                \* record -> "none", "pending", or the status answered
    \* history, written only to state the properties
    runs,                    \* record -> number of invocations of broadcast_signal
    attempts,                \* record -> handle -> number of client.send calls
    delivered,               \* record -> handles whose send returned normally
    sendCtx,                 \* record -> contexts that called client.send
    snapReg,                 \* record -> the registry when the coroutine copied it
    saw237,                  \* record -> the loop as app.py:237 found it
    retBefore,               \* record -> calls that had returned when this call began
    foundDead,               \* record -> the dispatch loop had stopped when the call began
    pruned                   \* handles that some coroutine removed at app.py:200

vars == << WS_ENABLED, phase, ws_clients, broadcast_loop, broadcast_loop_thread,
           thread, loopRunner, queue, pc, bpc, ctx, clients_copy, idx,
           disconnected, cpc, ticker_mapping, config_file, TICKER_MAPPING,
           load_state, ticker, mapped_ticker, data, signal_data, response, runs, attempts, delivered, sendCtx, snapReg,
           saw237, retBefore, foundDead, pruned >>

mapVars == << ticker_mapping, config_file, TICKER_MAPPING, load_state, ticker,
             mapped_ticker >>
webVars == << data, signal_data, response >>
confVars == << WS_ENABLED, phase, mapVars, webVars >>
loopVars == << broadcast_loop, broadcast_loop_thread, thread, loopRunner, queue >>
callVars == << pc, retBefore, foundDead >>
taskVars == << bpc, ctx, clients_copy, idx, disconnected, runs, attempts,
               delivered, sendCtx, snapReg, saw237, pruned >>
connVars == << cpc >>

-----------------------------------------------------------------------------
\* Pure parts of the code.

AddNothing(S, h) == S

\* app.py:159  _ws_clients.add(websocket)
AddClient(S, h) == S \cup {h}

DiscardNothing(S, h) == S

DiscardAll(S, h) == {}

\* app.py:168  _ws_clients.discard(websocket)
DiscardClient(S, h) == S \ {h}

RemoveNothing(S, D) == S

RemoveAll(S, D) == {}

\* app.py:200  _ws_clients -= disconnected
RemoveDisconnected(S, D) == S \ D

NeverEmpty(S) == FALSE

\* app.py:185  len(_ws_clients) == 0
NoClients(S) == Cardinality(S) = 0

\* All orders in which a set can be iterated.
RECURSIVE Orders(_)
Orders(S) ==
    IF S = {} THEN { << >> }
    ELSE UNION { { << h >> \o s : s \in Orders(S \ {h}) } : h \in S }

CopiesButLast(S) == { SubSeq(s, 1, Len(s) - 1) : s \in Orders(S) }

\* app.py:187  clients_copy = list(_ws_clients): the members, in the set's
\* iteration order, which the language leaves unspecified.
ClientsCopies(S) == Orders(S)

\* The outcomes of `await client.send(message)` (app.py:192): it returns, or
\* raises (ConnectionClosed when the connection is closed).
SendOutcomes(isOpen) ==
    IF isOpen THEN {"sent", "ConnectionClosed"} ELSE {"ConnectionClosed"}

CatchesNothing(e) == FALSE

\* app.py:193  except Exception: every failure of send is caught.
Caught193(e) == e \in {"ConnectionClosed"}

\* app.py:214  _broadcast_loop_thread is None or not _broadcast_loop_thread.is_alive()
ThreadNeeded(th, thr) == th = 0 \/ thr[th] \notin {"alive", "loopset", "running"}

UsableNever(lp, runner) == FALSE

\* app.py:237  _broadcast_loop is not None and _broadcast_loop.is_running()
LoopUsable(lp, runner) == lp # 0 /\ runner[lp] # 0

\* The facts app.py:237 reads: no loop, a loop not running, a running loop.
LoopStatus(lp, runner) ==
    IF lp = 0 THEN "none" ELSE IF runner[lp] = 0 THEN "stopped" ELSE "running"

-----------------------------------------------------------------------------
\* Strings and dicts of the ticker mapping (app.py:27-141).  A string is the
\* sequence of its characters; a dict is a function from its keys.

\* str.upper(), on the letters the model uses.
UpperChar(c) ==
    CASE c = "c" -> "C"
      [] c = "g" -> "G"
      [] c = "m" -> "M"
      [] OTHER -> c

Upper(s) == [i \in 1..Len(s) |-> UpperChar(s[i])]

\* str.strip()
RECURSIVE LStrip(_)
LStrip(s) ==
    IF s = << >> THEN s
    ELSE IF s[1] = " " THEN LStrip(Tail(s)) ELSE s

RECURSIVE RStrip(_)
RStrip(s) ==
    IF s = << >> THEN s
    ELSE IF s[Len(s)] = " " THEN RStrip(SubSeq(s, 1, Len(s) - 1)) ELSE s

Strip(s) == RStrip(LStrip(s))

\* '=' in line
HasEq(s) == \E i \in 1..Len(s) : s[i] = "="

\* line.split('=', 1): the parts before and after the first '='.
FirstEq(s) == CHOOSE i \in 1..Len(s) : s[i] = "=" /\ \A j \in 1..(i - 1) : s[j] # "="
SplitOnce(s) == << SubSeq(s, 1, FirstEq(s) - 1), SubSeq(s, FirstEq(s) + 1, Len(s)) >>

EmptyDict == [k \in {} |-> << >>]

\* d[k] = v
Put(d, k, v) == [x \in DOMAIN d \cup {k} |-> IF x = k THEN v ELSE d[x]]

\* d.update(other) for a dict `other`
Update(d, other) ==
    [x \in DOMAIN d \cup DOMAIN other |-> IF x \in DOMAIN other THEN other[x] ELSE d[x]]

\* app.py:27-30  _default_ticker_mapping = {'GC': 'MGC'}
default_ticker_mapping == Put(EmptyDict, << "G", "C" >>, << "M", "G", "C" >>)

\* app.py:84-102: one line of the file.
ParseLine(file_mapping, raw) ==
    LET line == Strip(raw)
    IN IF line = << >> THEN file_mapping
       ELSE IF line[1] = "#" THEN file_mapping
       ELSE IF ~HasEq(line) THEN file_mapping
       ELSE LET parts == SplitOnce(line)
                source == Upper(Strip(parts[1]))
                target == Strip(parts[2])
            IN IF source # << >> /\ target # << >>
               THEN Put(file_mapping, source, target)
               ELSE file_mapping

\* app.py:79-102: file_mapping after the lines of the file, in order.
RECURSIVE FileMapping(_, _)
FileMapping(file_mapping, lines) ==
    IF lines = << >> THEN file_mapping
    ELSE FileMapping(ParseLine(file_mapping, Head(lines)), Tail(lines))

\* app.py:76-112: the table after the defaults and the file.  A file that is
\* missing, or that cannot be opened or decoded (app.py:109), changes nothing.
FileLayer(file) ==
    IF file.kind # "text" THEN default_ticker_mapping
    ELSE LET file_mapping == FileMapping(EmptyDict, file.lines)
         IN IF DOMAIN file_mapping # {}
            THEN Update(default_ticker_mapping, file_mapping)
            ELSE default_ticker_mapping

\* The elements that iterating a str yields: its characters, as strs.
StrItems(s) == [i \in 1..Len(s) |-> [kind |-> "str", val |-> << s[i] >>]]

\* dict.update(seq) for an iterable that is not a dict: every element must be
\* an iterable of two elements, the key and the value; the elements before
\* the first offending one are applied.
RECURSIVE UpdateFromSeq(_, _)
UpdateFromSeq(d, items) ==
    IF items = << >> THEN [table |-> d, raised |-> "no"]
    ELSE LET it == Head(items)
         IN IF it.kind = "num" THEN [table |-> d, raised |-> "TypeError"]
            ELSE IF Len(it.val) # 2 THEN [table |-> d, raised |-> "ValueError"]
            ELSE IF it.kind = "str"
                 THEN UpdateFromSeq(Put(d, << it.val[1] >>, << it.val[2] >>), Tail(items))
                 ELSE UpdateFromSeq(Put(d, it.val[1], it.val[2]), Tail(items))

\* app.py:118-119  _ticker_mapping.update(json.loads(env_mapping_str))
EnvUpdate(d, env) ==
    CASE env.kind = "invalid" -> [table |-> d, raised |-> "JSONDecodeError"]
      [] env.kind = "object" -> [table |-> Update(d, env.val), raised |-> "no"]
      [] env.kind = "array" -> UpdateFromSeq(d, env.val)
      [] env.kind = "string" -> UpdateFromSeq(d, StrItems(env.val))
      [] OTHER -> [table |-> d, raised |-> "TypeError"]

\* app.py:121  except json.JSONDecodeError
Caught121(e) == e = "JSONDecodeError"

\* load_ticker_mapping (app.py:67-124): the table it leaves in _ticker_mapping
\* and the exception it raises, if any.
load_ticker_mapping(file, env) ==
    LET layered == FileLayer(file)
    IN IF env.kind = "unset" THEN [table |-> layered, raised |-> "no"]
       ELSE LET res == EnvUpdate(layered, env)
            IN IF Caught121(res.raised)
               THEN [table |-> res.table, raised |-> "no"]
               ELSE res

\* The sentinel of app.py:131 and 304, written with a character that is no
\* letter.
Sentinel == << "?" >>

TickerAsGiven(t) == t

\* app.py:135  ticker_upper = ticker.upper()
TickerUpper(t) == Upper(t)

\* map_ticker (app.py:126-141)
map_ticker(table, t) ==
    IF t = << >> \/ t = Sentinel THEN t
    ELSE LET ticker_upper == TickerUpper(t)
         IN IF ticker_upper \in DOMAIN table THEN table[ticker_upper] ELSE t

\* Inputs.

RECURSIVE SeqsUpTo(_, _)
SeqsUpTo(S, n) ==
    IF n = 0 THEN { << >> }
    ELSE SeqsUpTo(S, n - 1) \cup { Append(s, x) : s \in SeqsUpTo(S, n - 1), x \in S }

Tickers == SeqsUpTo({"c", "C", "g", "G"}, MaxTicker) \cup { Sentinel }

ConfigLines ==
    { << "C", "G", "=", "M", "C" >>,
      << " ", "c", "g", " ", "=", " ", "m", " " >>,
      << "g", "c", "=", "G" >>,
      << "#", "C", "=", "M" >>,
      << " " >>,
      << "C", "=" >>,
      << "=", "M" >>,
      << "G" >>,
      << "G", "=", "M", "=", "C" >> }

ConfigFiles ==
    { [kind |-> "missing", lines |-> << >>], [kind |-> "unreadable", lines |-> << >>] }
    \cup { [kind |-> "text", lines |-> l] : l \in SeqsUpTo(ConfigLines, MaxLines) }

EnvValues ==
    { [kind |-> "unset", val |-> << >>],
      [kind |-> "invalid", val |-> << >>],
      [kind |-> "object", val |-> EmptyDict],
      [kind |-> "object", val |-> Put(EmptyDict, << "C", "G" >>, << "M" >>)],
      [kind |-> "object", val |-> Put(EmptyDict, << "G", "C" >>, << "G" >>)],
      [kind |-> "object", val |-> Put(EmptyDict, << "c", "g" >>, << "M" >>)],
      [kind |-> "array", val |-> << >>],
      [kind |-> "array", val |-> << [kind |-> "num", val |-> << >>] >>],
      [kind |-> "array", val |-> << [kind |-> "str", val |-> << "C", "G" >>] >>],
      [kind |-> "array", val |-> << [kind |-> "list", val |-> << << "C" >>, << "G" >> >>] >>],
      [kind |-> "string", val |-> << >>],
      [kind |-> "string", val |-> << "C", "G" >>],
      [kind |-> "number", val |-> << >>],
      [kind |-> "null", val |-> << >>] }

-----------------------------------------------------------------------------
\* Values of the webhook's JSON body (app.py:296-330).  A value is a record of
\* its kind and its content: a number is the pair of a numerator and a
\* denominator, a str the sequence of its characters.

Absent == [kind |-> "absent", val |-> << >>]
Null == [kind |-> "null", val |-> << >>]
IntValue(n) == [kind |-> "int", val |-> << n, 1 >>]
FloatValue(n, d) == [kind |-> "float", val |-> << n, d >>]
StrValue(s) == [kind |-> "str", val |-> s]

\* The default of data.get('price', ...) at app.py:306, written with a
\* character that is no digit.
PriceDefault == StrValue(<< "?" >>)

\* The truth value of an object, as `if price` and `if interval` test it.
Truthy(v) ==
    CASE v.kind \in {"absent", "null"} -> FALSE
      [] v.kind \in {"int", "float"} -> v.val[1] # 0
      [] v.kind \in {"inf", "nan"} -> TRUE
      [] OTHER -> v.val # << >>

IsDigit(c) == c \in {"0", "2", "5"}
DigitVal(c) == CASE c = "0" -> 0 [] c = "2" -> 2 [] c = "5" -> 5 [] OTHER -> 0
AllDigits(s) == s # << >> /\ \A i \in 1..Len(s) : IsDigit(s[i])

RECURSIVE IntOf(_)
IntOf(s) ==
    IF s = << >> THEN 0
    ELSE 10 * IntOf(SubSeq(s, 1, Len(s) - 1)) + DigitVal(s[Len(s)])

RECURSIVE Pow10(_)
Pow10(n) == IF n = 0 THEN 1 ELSE 10 * Pow10(n - 1)

\* int(str): digits, with blanks around them allowed.
ParseInt(s) ==
    LET t == Strip(s)
    IN IF AllDigits(t) THEN [val |-> IntValue(IntOf(t)), raised |-> "no"]
       ELSE [val |-> Null, raised |-> "ValueError"]

\* float(str): digits with at most one point and a digit on one side of it.
ParseFloat(s) ==
    LET t == Strip(s)
        points == { i \in 1..Len(t) : t[i] = "." }
    IN IF AllDigits(t) THEN [val |-> FloatValue(IntOf(t), 1), raised |-> "no"]
       ELSE IF Cardinality(points) # 1 THEN [val |-> Null, raised |-> "ValueError"]
       ELSE LET p == CHOOSE i \in points : TRUE
                a == SubSeq(t, 1, p - 1)
                b == SubSeq(t, p + 1, Len(t))
            IN IF /\ (a = << >> \/ AllDigits(a))
                  /\ (b = << >> \/ AllDigits(b))
                  /\ (a # << >> \/ b # << >>)
               THEN [val |-> FloatValue(IntOf(a) * Pow10(Len(b)) + IntOf(b), Pow10(Len(b))),
                     raised |-> "no"]
               ELSE [val |-> Null, raised |-> "ValueError"]

\* app.py:314-317: float(price) for a number or a str, else nothing.
ToFloat(v) ==
    CASE v.kind \in {"int", "float"} -> [val |-> FloatValue(v.val[1], v.val[2]), raised |-> "no"]
      [] v.kind \in {"inf", "nan"} -> [val |-> v, raised |-> "no"]
      [] v.kind = "str" -> ParseFloat(v.val)
      [] OTHER -> [val |-> Null, raised |-> "no"]

\* app.py:325-328: int(interval) for a number or a str, else nothing.  int()
\* truncates a float, and raises OverflowError for an infinity and ValueError
\* for a NaN.
ToInt(v) ==
    CASE v.kind \in {"int", "float"} -> [val |-> IntValue(v.val[1] \div v.val[2]), raised |-> "no"]
      [] v.kind = "inf" -> [val |-> Null, raised |-> "OverflowError"]
      [] v.kind = "nan" -> [val |-> Null, raised |-> "ValueError"]
      [] v.kind = "str" -> ParseInt(v.val)
      [] OTHER -> [val |-> Null, raised |-> "no"]

\* app.py:318, 329  except (ValueError, TypeError)
Caught318(e) == e \in {"ValueError", "TypeError"}

\* app.py:311-319
price_value(price) ==
    IF Truthy(price) /\ price # PriceDefault
    THEN LET res == ToFloat(price)
         IN IF Caught318(res.raised) THEN [val |-> Null, raised |-> "no"] ELSE res
    ELSE [val |-> Null, raised |-> "no"]

\* app.py:322-330
interval_value(interval) ==
    IF Truthy(interval)
    THEN LET res == ToInt(interval)
         IN IF Caught318(res.raised) THEN [val |-> Null, raised |-> "no"] ELSE res
    ELSE [val |-> Null, raised |-> "no"]

\* Inputs: the values a body gives to price and to interval, and its tickers.
FieldValues ==
    { Absent, Null, IntValue(0), IntValue(5), FloatValue(0, 10), FloatValue(25, 10),
      [kind |-> "inf", val |-> << >>], [kind |-> "nan", val |-> << >>],
      StrValue(<< >>), StrValue(<< "0" >>), StrValue(<< "5" >>),
      StrValue(<< "2", ".", "5" >>), StrValue(<< " ", "5", " " >>),
      StrValue(<< "?" >>), [kind |-> "list", val |-> << 5 >>] }

TickerValues == { Absent, StrValue(<< "g", "c" >>) }

Bodies == [ticker : TickerValues, price : FieldValues, interval : FieldValues]

NoBody == [ticker |-> Absent, price |-> Absent, interval |-> Absent]
NoSignal == [Ticker |-> << >>, Price |-> Null, Interval |-> Null]

-----------------------------------------------------------------------------
\* Readings of the state.

\* The Thread objects made so far (app.py:215).
ThreadsCreated == { t \in ThreadIds : thread[t] # "none" }

\* The event loops made so far (app.py:210); thread t makes loop t.
LoopsCreated ==
    { t \in ThreadIds : thread[t] \in {"loopset", "running", "dead", "ended"} }

\* A dispatch loop ran and stopped, and no dispatch loop is running.
LoopStopped ==
    /\ \E t \in ThreadIds : thread[t] = "ended"
    /\ \A l \in ThreadIds : loopRunner[l] = 0

\* The id of the next Thread object.
NewThread ==
    CHOOSE t \in ThreadIds : thread[t] = "none" /\ \A u \in 1..(t - 1) : thread[u] # "none"

\* A coroutine that has copied the registry and has not returned.
InProgress(r) == bpc[r] \in {"sending", "removing"}

\* A coroutine that has been at app.py:184-187.
Snapped(r) == bpc[r] \in {"sending", "removing", "done", "raised"}

\* The connection of handle h is open: register_client waits at app.py:163.
Open(h) == cpc[h] = "waiting"

\* The handles for which a send of some coroutine has raised.
FailedHandles == pruned \cup UNION { disconnected[r] : r \in Records }

\* The handles to which coroutine r has begun a send.
Attempted(r) == { h \in Handles : attempts[r][h] > 0 }

\* The event loop l is inside a step of one of its tasks: a coroutine that has
\* left its last `await` and is at app.py:198; no other task of l runs then.
LoopBusy(l) == l > 0 /\ \E r \in Records : ctx[r] = l /\ bpc[r] = "removing"

\* The module's globals once it is imported (app.py:13-149, 32 for the table).
Imported ==
    /\ WS_ENABLED \in BOOLEAN
    /\ phase = "boot"
    /\ ws_clients = {}
    /\ broadcast_loop = 0
    /\ broadcast_loop_thread = 0
    /\ thread = [t \in ThreadIds |-> "none"]
    /\ loopRunner = [l \in ThreadIds |-> 0]
    /\ queue = [l \in ThreadIds |-> << >>]
    /\ pc = [r \in Records |-> "idle"]
    /\ bpc = [r \in Records |-> "none"]
    /\ ctx = [r \in Records |-> -1]
    /\ clients_copy = [r \in Records |-> << >>]
    /\ idx = [r \in Records |-> 0]
    /\ disconnected = [r \in Records |-> {}]
    /\ cpc = [h \in Handles |-> "absent"]
    /\ runs = [r \in Records |-> 0]
    /\ attempts = [r \in Records |-> [h \in Handles |-> 0]]
    /\ delivered = [r \in Records |-> {}]
    /\ sendCtx = [r \in Records |-> {}]
    /\ snapReg = [r \in Records |-> {}]
    /\ saw237 = [r \in Records |-> "unseen"]
    /\ retBefore = [r \in Records |-> {}]
    /\ foundDead = [r \in Records |-> FALSE]
    /\ pruned = {}
    /\ ticker_mapping = default_ticker_mapping
    /\ load_state = "boot"
    /\ ticker = << >>
    /\ mapped_ticker = << >>
    /\ data = [r \in Records |-> NoBody]
    /\ signal_data = [r \in Records |-> NoSignal]
    /\ response = [r \in Records |-> "none"]

\* A process without a mapping file and without TICKER_MAPPING.
Init ==
    /\ Imported
    /\ config_file = [kind |-> "missing", lines |-> << >>]
    /\ TICKER_MAPPING = [kind |-> "unset", val |-> << >>]

\* A process with any mapping file and any value of TICKER_MAPPING; the
\* mapping reads nothing else of the configuration.
InitMapping ==
    /\ Imported
    /\ WS_ENABLED
    /\ config_file \in ConfigFiles
    /\ TICKER_MAPPING \in EnvValues

-----------------------------------------------------------------------------
\* Process start.

\* app.py:380-420 run as a script: _init_broadcast_loop() (line 385) runs in
\* the main thread before any request is served, then the servers start.
MainScript ==
    /\ phase = "boot"
    /\ load_state = "boot"
    /\ LET res == load_ticker_mapping(config_file, TICKER_MAPPING)
       IN /\ ticker_mapping' = res.table
          /\ IF res.raised # "no"
             THEN /\ load_state' = res.raised
                  /\ phase' = "crashed"
                  /\ UNCHANGED << thread, broadcast_loop_thread >>
             ELSE /\ load_state' = "loaded"
                  /\ phase' = "serving"
                  /\ IF ThreadNeeded(broadcast_loop_thread, thread)
                     THEN /\ thread' = [thread EXCEPT ![NewThread] = "alive"]
                          /\ broadcast_loop_thread' = NewThread
                     ELSE UNCHANGED << thread, broadcast_loop_thread >>
    /\ UNCHANGED << config_file, TICKER_MAPPING, ticker, mapped_ticker, webVars >>
    /\ UNCHANGED << WS_ENABLED, broadcast_loop, loopRunner, queue >>
    /\ UNCHANGED << ws_clients, callVars, taskVars, connVars >>

\* The module imported by a host (a WSGI server, a test) that serves `app` and
\* calls start_websocket_server(): the block of app.py:380 does not run, and
\* the dispatch loop is left to broadcast_signal_async (app.py:233-234).
HostImport ==
    /\ phase = "boot"
    /\ phase' = "serving"
    /\ UNCHANGED << WS_ENABLED, mapVars, webVars, ws_clients, loopVars, callVars, taskVars,
                    connVars >>

-----------------------------------------------------------------------------
\* run_loop, the target of the dispatch thread (app.py:208-212).

\* app.py:210  _broadcast_loop = asyncio.new_event_loop()
RunLoop210(t) ==
    /\ thread[t] = "alive"
    /\ broadcast_loop' = t
    /\ thread' = [thread EXCEPT ![t] = "loopset"]
    /\ UNCHANGED << broadcast_loop_thread, loopRunner, queue >>
    /\ UNCHANGED << confVars, ws_clients, callVars, taskVars, connVars >>

\* app.py:212  _broadcast_loop.run_forever(): the global is read again, and
\* run_forever raises RuntimeError when that loop is already running, which
\* ends the thread.
RunLoop212(t) ==
    /\ thread[t] = "loopset"
    /\ IF loopRunner[broadcast_loop] # 0
       THEN /\ thread' = [thread EXCEPT ![t] = "dead"]
            /\ UNCHANGED loopRunner
       ELSE /\ thread' = [thread EXCEPT ![t] = "running"]
            /\ loopRunner' = [loopRunner EXCEPT ![broadcast_loop] = t]
    /\ UNCHANGED << broadcast_loop, broadcast_loop_thread, queue >>
    /\ UNCHANGED << confVars, ws_clients, callVars, taskVars, connVars >>

\* app.py:212: run_forever() returns (the loop was stopped) or raises out of a
\* callback, between two callbacks and with no coroutine suspended on the
\* loop: run_loop returns and the thread ends.  _broadcast_loop still names
\* the loop.
LoopCrash(t) ==
    /\ thread[t] = "running"
    /\ \A r \in Records : ~(InProgress(r) /\ ctx[r] \in ThreadIds /\ loopRunner[ctx[r]] = t)
    /\ thread' = [thread EXCEPT ![t] = "ended"]
    /\ loopRunner' = [l \in ThreadIds |-> IF loopRunner[l] = t THEN 0 ELSE loopRunner[l]]
    /\ UNCHANGED << broadcast_loop, broadcast_loop_thread, queue >>
    /\ UNCHANGED << confVars, ws_clients, callVars, taskVars, connVars >>

-----------------------------------------------------------------------------
\* broadcast_signal (app.py:171-200).

\* app.py:176-192, the coroutine's first step, run by context c: the check of
\* WS_ENABLED, the copy of the registry under the lock, and the first send.
BroadcastStart(r, c) ==
    /\ runs' = [runs EXCEPT ![r] = @ + 1]
    /\ IF ~WS_ENABLED \/ NoClients(ws_clients)
       THEN /\ bpc' = [bpc EXCEPT ![r] = "done"]
            /\ saw237' = [saw237 EXCEPT ![r] = "unseen"]
            /\ UNCHANGED << ctx, clients_copy, idx, attempts, sendCtx, snapReg >>
       ELSE \E s \in ClientsCopies(ws_clients) :
              /\ ctx' = [ctx EXCEPT ![r] = c]
              /\ clients_copy' = [clients_copy EXCEPT ![r] = s]
              /\ snapReg' = [snapReg EXCEPT ![r] = ws_clients]
              /\ saw237' = saw237
              /\ IF Len(s) = 0
                 THEN /\ bpc' = [bpc EXCEPT ![r] = "removing"]
                      /\ UNCHANGED << idx, attempts, sendCtx >>
                 ELSE /\ bpc' = [bpc EXCEPT ![r] = "sending"]
                      /\ idx' = [idx EXCEPT ![r] = 1]
                      /\ attempts' = [attempts EXCEPT ![r][s[1]] = @ + 1]
                      /\ sendCtx' = [sendCtx EXCEPT ![r] = @ \cup {c}]
    /\ UNCHANGED << disconnected, delivered, pruned, ws_clients >>

\* app.py:190-195, one resumption of the coroutine: the pending send returns
\* or raises, and the next send begins, if there is one.
BroadcastStep(r) ==
    /\ bpc[r] = "sending"
    /\ ~LoopBusy(ctx[r])
    /\ LET h == clients_copy[r][idx[r]]
       IN \E e \in SendOutcomes(Open(h)) :
            /\ delivered' = [delivered EXCEPT ![r] = IF e = "sent" THEN @ \cup {h} ELSE @]
            /\ IF e # "sent" /\ ~Caught193(e)
               THEN /\ bpc' = [bpc EXCEPT ![r] = "raised"]
                    /\ pc' = IF ctx[r] = 0 THEN [pc EXCEPT ![r] = "ret"] ELSE pc
                    /\ UNCHANGED << disconnected, idx, attempts, sendCtx >>
               ELSE /\ disconnected' = [disconnected EXCEPT ![r] =
                                           IF e = "sent" THEN @ ELSE @ \cup {h}]
                    /\ pc' = pc
                    /\ IF idx[r] < Len(clients_copy[r])
                       THEN /\ idx' = [idx EXCEPT ![r] = @ + 1]
                            /\ attempts' = [attempts EXCEPT
                                              ![r][clients_copy[r][idx[r] + 1]] = @ + 1]
                            /\ sendCtx' = [sendCtx EXCEPT ![r] = @ \cup {ctx[r]}]
                            /\ UNCHANGED bpc
                       ELSE /\ bpc' = [bpc EXCEPT ![r] = "removing"]
                            /\ UNCHANGED << idx, attempts, sendCtx >>
    /\ UNCHANGED << ctx, clients_copy, runs, snapReg, saw237, pruned, ws_clients >>
    /\ UNCHANGED << confVars, loopVars, connVars, retBefore, foundDead >>

\* app.py:197-200: the failed handles are removed under the lock and the
\* coroutine returns; its locals, and what was observed of it, are dropped.
\* An inline coroutine's caller returns with it (app.py:243-244).
Remove198(r) ==
    /\ bpc[r] = "removing"
    /\ ws_clients' = IF disconnected[r] # {}
                     THEN RemoveDisconnected(ws_clients, disconnected[r])
                     ELSE ws_clients
    /\ bpc' = [bpc EXCEPT ![r] = "done"]
    /\ pc' = IF ctx[r] = 0 THEN [pc EXCEPT ![r] = "ret"] ELSE pc
    /\ clients_copy' = [clients_copy EXCEPT ![r] = << >>]
    /\ idx' = [idx EXCEPT ![r] = 0]
    /\ disconnected' = [disconnected EXCEPT ![r] = {}]
    /\ attempts' = [attempts EXCEPT ![r] = [h \in Handles |-> 0]]
    /\ delivered' = [delivered EXCEPT ![r] = {}]
    /\ sendCtx' = [sendCtx EXCEPT ![r] = {}]
    /\ snapReg' = [snapReg EXCEPT ![r] = {}]
    /\ saw237' = [saw237 EXCEPT ![r] = "unseen"]
    /\ ctx' = [ctx EXCEPT ![r] = -1]
    /\ pruned' = pruned \cup disconnected[r]
    /\ UNCHANGED runs
    /\ UNCHANGED << confVars, loopVars, connVars, retBefore, foundDead >>

\* The event loop of a dispatch thread runs its next callback: the coroutine
\* posted by run_coroutine_threadsafe starts (app.py:212, 238).
LoopStart(l) ==
    /\ loopRunner[l] # 0
    /\ ~LoopBusy(l)
    /\ queue[l] # << >>
    /\ BroadcastStart(Head(queue[l]), l)
    /\ queue' = [queue EXCEPT ![l] = Tail(@)]
    /\ UNCHANGED << broadcast_loop, broadcast_loop_thread, thread, loopRunner >>
    /\ UNCHANGED << confVars, callVars, connVars >>

-----------------------------------------------------------------------------
\* broadcast_signal_async (app.py:221-246) and _init_broadcast_loop
\* (app.py:202-219), one call per record, each in its own request context.

\* app.py:228-233: the call begins; disabled, it returns; else it reads
\* _broadcast_loop.  Calls are numbered in the order in which they begin.
Submit228(r) ==
    /\ phase = "serving"
    /\ pc[r] = "idle"
    /\ IF r = 1 THEN TRUE ELSE pc[r - 1] # "idle"
    /\ retBefore' = [retBefore EXCEPT ![r] = { a \in Records : pc[a] = "ret" }]
    /\ foundDead' = [foundDead EXCEPT ![r] = LoopStopped]
    /\ pc' = [pc EXCEPT ![r] = IF ~WS_ENABLED THEN "ret"
                               ELSE IF broadcast_loop = 0 THEN "l214" ELSE "l237"]
    /\ UNCHANGED << ws_clients, loopVars, taskVars, connVars >>

\* A call of broadcast_signal_async by a caller that is not the handler below.
Call228(r) ==
    /\ Submit228(r)
    /\ UNCHANGED confVars

\* app.py:214: the unsynchronised test of _broadcast_loop_thread; when it
\* fails _init_broadcast_loop returns at once.
Init214(r) ==
    /\ pc[r] = "l214"
    /\ pc' = [pc EXCEPT ![r] = IF ThreadNeeded(broadcast_loop_thread, thread)
                               THEN "l215" ELSE "l237"]
    /\ UNCHANGED << retBefore, foundDead, confVars, ws_clients, loopVars, taskVars, connVars >>

\* app.py:215: a new Thread object is stored in the global.
Init215(r) ==
    /\ pc[r] = "l215"
    /\ thread' = [thread EXCEPT ![NewThread] = "created"]
    /\ broadcast_loop_thread' = NewThread
    /\ pc' = [pc EXCEPT ![r] = "l216"]
    /\ UNCHANGED << broadcast_loop, loopRunner, queue >>
    /\ UNCHANGED << retBefore, foundDead, confVars, ws_clients, taskVars, connVars >>

\* app.py:216-219: start() of the Thread the global names now, then the
\* sleep.  Thread.start raises RuntimeError on a thread started before; the
\* handler of app.py:245 catches it and the call returns.
Init216(r) ==
    /\ pc[r] = "l216"
    /\ IF thread[broadcast_loop_thread] = "created"
       THEN /\ thread' = [thread EXCEPT ![broadcast_loop_thread] = "alive"]
            /\ pc' = [pc EXCEPT ![r] = "l237"]
       ELSE /\ pc' = [pc EXCEPT ![r] = "ret"]
            /\ UNCHANGED thread
    /\ UNCHANGED << broadcast_loop, broadcast_loop_thread, loopRunner, queue >>
    /\ UNCHANGED << retBefore, foundDead, confVars, ws_clients, taskVars, connVars >>

\* app.py:237: is the loop the global names running?
Call237(r) ==
    /\ pc[r] = "l237"
    /\ pc' = [pc EXCEPT ![r] = IF LoopUsable(broadcast_loop, loopRunner)
                               THEN "l238" ELSE "l241"]
    /\ saw237' = [saw237 EXCEPT ![r] = LoopStatus(broadcast_loop, loopRunner)]
    /\ UNCHANGED << bpc, ctx, clients_copy, idx, disconnected, runs, attempts,
                    delivered, sendCtx, snapReg, pruned >>
    /\ UNCHANGED << retBefore, foundDead, confVars, ws_clients, loopVars, connVars >>

\* app.py:238: run_coroutine_threadsafe posts the coroutine to the loop the
\* global names now, and the call returns.
Call238(r) ==
    /\ pc[r] = "l238"
    /\ queue' = [queue EXCEPT ![broadcast_loop] = Append(@, r)]
    /\ bpc' = [bpc EXCEPT ![r] = "queued"]
    /\ pc' = [pc EXCEPT ![r] = "ret"]
    /\ UNCHANGED << broadcast_loop, broadcast_loop_thread, thread, loopRunner >>
    /\ UNCHANGED << ctx, clients_copy, idx, disconnected, runs, attempts,
                    delivered, sendCtx, snapReg, saw237, pruned >>
    /\ UNCHANGED << retBefore, foundDead, confVars, ws_clients, connVars >>

\* app.py:241-243: the fallback; the coroutine starts on a temporary loop in
\* the caller's own thread.
Call241(r) ==
    /\ pc[r] = "l241"
    /\ bpc[r] = "none"
    /\ BroadcastStart(r, 0)
    /\ pc' = IF bpc'[r] = "done" THEN [pc EXCEPT ![r] = "ret"] ELSE pc
    /\ UNCHANGED << retBefore, foundDead, confVars, loopVars, connVars >>

-----------------------------------------------------------------------------
\* register_client (app.py:151-169), one coroutine per accepted connection.
\* Nothing reads a connection before it is in the registry, and nothing but
\* wait_closed tells the program that a connection closed, so the acceptance
\* is one step with the insertion, and the closure one step with the return
\* of wait_closed.

\* app.py:266, 156-159: websockets.serve accepts a connection and
\* register_client inserts it; handles are numbered in the order of acceptance.
Register159(h) ==
    /\ phase = "serving"
    /\ WS_ENABLED
    /\ cpc[h] = "absent"
    /\ IF h = 1 THEN TRUE ELSE cpc[h - 1] # "absent"
    /\ ws_clients' = AddClient(ws_clients, h)
    /\ cpc' = [cpc EXCEPT ![h] = "waiting"]
    /\ UNCHANGED << confVars, loopVars, callVars, taskVars >>

\* app.py:163-165: the connection closes and wait_closed() returns (or raises).
Register163(h) ==
    /\ cpc[h] = "waiting"
    /\ cpc' = [cpc EXCEPT ![h] = "closing"]
    /\ UNCHANGED << confVars, ws_clients, loopVars, callVars, taskVars >>

\* app.py:166-168
Register168(h) ==
    /\ cpc[h] = "closing"
    /\ ws_clients' = DiscardClient(ws_clients, h)
    /\ cpc' = [cpc EXCEPT ![h] = "done"]
    /\ UNCHANGED << confVars, loopVars, callVars, taskVars >>

-----------------------------------------------------------------------------

CallerStep(r) ==
    \/ Init214(r)
    \/ Init215(r)
    \/ Init216(r)
    \/ Call237(r)
    \/ Call238(r)
    \/ Call241(r)

ThreadStep(t) ==
    \/ RunLoop210(t)
    \/ RunLoop212(t)
    \/ LoopStart(t)

TaskStep(r) ==
    \/ BroadcastStep(r)
    \/ Remove198(r)

ConnStep(h) ==
    \/ Register168(h)

Next ==
    \/ MainScript
    \/ HostImport
    \/ \E r \in Records : Call228(r)
    \/ \E r \in Records : CallerStep(r)
    \/ \E t \in ThreadIds : ThreadStep(t)
    \/ \E r \in Records : TaskStep(r)
    \/ \E h \in Handles : Register159(h)
    \/ \E h \in Handles : Register163(h)
    \/ \E h \in Handles : ConnStep(h)

\* The whole program: either way of starting it, every call, every client.
Spec == Init /\ [][Next]_vars

-----------------------------------------------------------------------------
\* The program run as a script (app.py:380): the registry, the coroutines and
\* the connections, with RegRecords calls of broadcast_signal_async.

RegRecords == 2

NextRegistry ==
    \/ MainScript
    \/ \E r \in 1..RegRecords : Call228(r)
    \/ \E r \in Records : Init214(r) \/ Call237(r) \/ Call238(r) \/ Call241(r)
    \/ \E t \in ThreadIds : ThreadStep(t)
    \/ \E r \in Records : TaskStep(r)
    \/ \E h \in Handles : Register159(h)
    \/ \E h \in Handles : Register163(h)
    \/ \E h \in Handles : ConnStep(h)

SpecRegistry == Init /\ [][NextRegistry]_vars

\* Every thread that can take a step of the code eventually takes it, and a
\* pending send eventually returns or raises.  Requests and clients arrive and
\* leave as they please.
FairRegistry ==
    /\ SpecRegistry
    /\ \A r \in Records : WF_vars(CallerStep(r))
    /\ \A t \in ThreadIds : WF_vars(ThreadStep(t))
    /\ \A r \in Records : WF_vars(TaskStep(r))
    /\ \A h \in Handles : WF_vars(ConnStep(h))

-----------------------------------------------------------------------------
\* The module imported by a host, before any client has connected: the lazy
\* start of the dispatch loop by the first calls of broadcast_signal_async.

NextDispatch ==
    \/ HostImport
    \/ \E r \in Records : Call228(r)
    \/ \E r \in Records : CallerStep(r)
    \/ \E t \in ThreadIds : ThreadStep(t)

SpecDispatch == Init /\ [][NextDispatch]_vars

-----------------------------------------------------------------------------
\* The program run as a script whose dispatch loop may stop, before any client
\* has connected.

NextCrash ==
    \/ MainScript
    \/ \E r \in Records : Call228(r)
    \/ \E r \in Records : Init214(r) \/ Call237(r) \/ Call238(r) \/ Call241(r)
    \/ \E t \in ThreadIds : ThreadStep(t)
    \/ \E t \in ThreadIds : LoopCrash(t)

SpecCrash == Init /\ [][NextCrash]_vars

-----------------------------------------------------------------------------
\* load_ticker_mapping and map_ticker called as functions.

\* A call of load_ticker_mapping() (app.py:67-124, called at 382).
Load67 ==
    /\ load_state = "boot"
    /\ LET res == load_ticker_mapping(config_file, TICKER_MAPPING)
       IN /\ ticker_mapping' = res.table
          /\ load_state' = IF res.raised = "no" THEN "loaded" ELSE res.raised
    /\ UNCHANGED << config_file, TICKER_MAPPING, ticker, mapped_ticker >>
    /\ UNCHANGED << WS_ENABLED, phase, webVars, ws_clients, loopVars, callVars, taskVars,
                    connVars >>

\* A call of map_ticker(t) (app.py:126-141).
Map126(t) ==
    /\ ticker' = t
    /\ mapped_ticker' = map_ticker(ticker_mapping, t)
    /\ UNCHANGED << ticker_mapping, config_file, TICKER_MAPPING, load_state >>
    /\ UNCHANGED << WS_ENABLED, phase, webVars, ws_clients, loopVars, callVars, taskVars,
                    connVars >>

NextMapping ==
    \/ Load67
    \/ \E t \in Tickers : Map126(t)

SpecMapping == InitMapping /\ [][NextMapping]_vars

-----------------------------------------------------------------------------
\* webhook_listener (app.py:288-366), the handler of one request per record.
\* The action field passes through unread and is left out.

\* app.py:293-345: the body is read, the payload is built, and with
\* broadcasting enabled broadcast_signal_async is called.  An exception of the
\* conversions that app.py:318 and 329 do not catch reaches app.py:364: the
\* handler answers 400 and calls nothing.
Webhook296(r, d) ==
    /\ phase = "serving"
    /\ response[r] = "none"
    /\ pc[r] = "idle"
    /\ data' = [data EXCEPT ![r] = d]
    /\ LET tk == IF d.ticker = Absent THEN Sentinel ELSE d.ticker.val
           price == IF d.price = Absent THEN PriceDefault ELSE d.price
           interval == IF d.interval = Absent THEN Null ELSE d.interval
           pv == price_value(price)
           iv == interval_value(interval)
       IN IF pv.raised # "no" \/ iv.raised # "no"
          THEN /\ response' = [response EXCEPT ![r] = "400"]
               /\ UNCHANGED << signal_data, ticker, mapped_ticker >>
               /\ UNCHANGED << ws_clients, loopVars, callVars, taskVars, connVars >>
          ELSE /\ ticker' = tk
               /\ mapped_ticker' = map_ticker(ticker_mapping, tk)
               /\ signal_data' = [signal_data EXCEPT ![r] =
                                     [Ticker |-> map_ticker(ticker_mapping, tk),
                                      Price |-> pv.val, Interval |-> iv.val]]
               /\ IF WS_ENABLED
                  THEN /\ Submit228(r)
                       /\ response' = [response EXCEPT ![r] = "pending"]
                  ELSE /\ response' = [response EXCEPT ![r] = "200"]
                       /\ UNCHANGED << ws_clients, loopVars, callVars, taskVars, connVars >>
    /\ UNCHANGED << WS_ENABLED, phase, ticker_mapping, config_file, TICKER_MAPPING,
                    load_state >>

\* app.py:345-362: broadcast_signal_async has returned; the handler answers 200.
Webhook362(r) ==
    /\ response[r] = "pending"
    /\ pc[r] = "ret"
    /\ response' = [response EXCEPT ![r] = "200"]
    /\ UNCHANGED << data, signal_data >>
    /\ UNCHANGED << WS_ENABLED, phase, mapVars, ws_clients, loopVars, callVars, taskVars,
                    connVars >>

\* The program run as a script that serves one webhook request, with one
\* client.
NextWebhook ==
    \/ MainScript
    \/ \E d \in Bodies : Webhook296(1, d)
    \/ \E r \in Records : Init214(r) \/ Call237(r) \/ Call238(r) \/ Call241(r)
    \/ \E t \in ThreadIds : ThreadStep(t)
    \/ \E r \in Records : TaskStep(r)
    \/ Register159(1)
    \/ \E h \in Handles : Register163(h)
    \/ \E h \in Handles : ConnStep(h)
    \/ \E r \in Records : Webhook362(r)

SpecWebhook == Init /\ [][NextWebhook]_vars

-----------------------------------------------------------------------------
\* C1: at any moment at most one broadcast is in progress, a broadcast being
\* in progress from the moment it has taken its snapshot of the registry until
\* it has finished its removal of the failed handles.
OneBroadcastInProgress ==
    Cardinality({ r \in Records : InProgress(r) }) <= 1

\* C2: whatever the number of callers that submit concurrently, at most one
\* dispatch-loop thread and at most one event loop are ever created.
DispatchLoopStartedOnce ==
    /\ Cardinality(ThreadsCreated) <= 1
    /\ Cardinality(LoopsCreated) <= 1

-----------------------------------------------------------------------------
-----------------------------------------------------------------------------
\* C4: while broadcasting is enabled no submitted record is lost: a call of
\* broadcast_signal_async that has returned has run the broadcast of its record
\* or has posted it to a dispatch loop, and no record is broadcast twice.
NoSubmittedSignalLost ==
    WS_ENABLED =>
        \A r \in Records :
            /\ pc[r] = "ret" => bpc[r] # "none"
            /\ runs[r] <= 1

\* C5: if the call for record a returned before the call for record b began,
\* the broadcast of a takes its snapshot of the registry before the broadcast
\* of b takes its own.
SnapshotsInSubmissionOrder ==
    \A a, b \in Records :
        (a \in retBefore[b] /\ bpc[a] # "none" /\ Snapped(b)) => Snapped(a)

-----------------------------------------------------------------------------
\* C6: when a broadcast returns and the registry was not changed by anyone else
\* since the broadcast copied it, the registry is the copied set minus exactly
\* the handles whose send raised, and every handle left has been sent the
\* record's message once, with success.
FailurePruning ==
    [][ \A r \in Records :
          (bpc[r] = "removing" /\ bpc'[r] = "done" /\ ws_clients = snapReg[r]) =>
              LET failed == { h \in Attempted(r) : h \notin delivered[r] }
              IN /\ ws_clients' = snapReg[r] \ failed
                 /\ \A h \in ws_clients' : h \in delivered[r] /\ attempts[r][h] = 1
      ]_vars

\* A broadcast is about to return: the registry is as the broadcast copied it,
\* one send of it raised on an open connection and another succeeded.
PruningDue ==
    \E r \in Records :
        /\ bpc[r] = "removing"
        /\ ws_clients = snapReg[r]
        /\ \E h \in disconnected[r] : cpc[h] = "waiting"
        /\ delivered[r] # {}

\* C7: a send that raises is contained: the broadcast never raises, and by the
\* time it reaches its removal step it has attempted a send to every handle of
\* its copy exactly once, whatever the outcome of the sends before.
SendFailureContained ==
    \A r \in Records :
        /\ bpc[r] # "raised"
        /\ \A h \in Handles : attempts[r][h] <= 1
        /\ bpc[r] = "sending" =>
               Attempted(r) = { clients_copy[r][i] : i \in 1..idx[r] }
        /\ bpc[r] = "removing" => Attempted(r) = snapReg[r]

\* The first send of a broadcast raised and a later send of it succeeded.
SentAfterFailure ==
    \E r \in Records :
        /\ bpc[r] = "removing"
        /\ clients_copy[r][1] \in disconnected[r]
        /\ delivered[r] # {}

-----------------------------------------------------------------------------
\* C8, as the specification states it: a handle is in the registry if and only
\* if its connection is open, no send to it has raised, and its closure has not
\* been reported to register_client.
RegisteredIffHealthy ==
    \A h \in Handles :
        h \in ws_clients <=>
            (Open(h) /\ h \notin FailedHandles /\ cpc[h] \notin {"closing", "done"})

\* C8: a handle is in the registry if and only if register_client has added it,
\* the discard in the `finally` of its register_client has not run, and no
\* broadcast has removed it at app.py:200; a handle whose connection has closed
\* or whose send has raised stays registered until one of these removals runs.
RegisteredUntilRemoved ==
    \A h \in Handles :
        h \in ws_clients <=> (cpc[h] \in {"waiting", "closing"} /\ h \notin pruned)

\* A handle whose send has raised, or whose closure has been reported, is still
\* in the registry.
StaleHandleRegistered ==
    \E h \in Handles :
        /\ h \in ws_clients
        /\ h \in FailedHandles \/ cpc[h] = "closing"

\* C9: a broadcast attempts a send to the handles of its copy of the registry
\* and to no other: never to a handle outside the copy, and to every handle of
\* the copy by the time it reaches its removal step.
SnapshotDelivery ==
    \A r \in Records :
        /\ Attempted(r) \subseteq snapReg[r]
        /\ delivered[r] \subseteq snapReg[r]
        /\ bpc[r] = "removing" => Attempted(r) = snapReg[r]

\* A broadcast has done all its sends, and a handle registered after the
\* broadcast copied the registry has been sent nothing.
LateHandleSkipped ==
    \E r \in Records, h \in Handles :
        /\ bpc[r] = "removing"
        /\ snapReg[r] # {}
        /\ h \in ws_clients /\ h \notin snapReg[r]
        /\ attempts[r][h] = 0

-----------------------------------------------------------------------------
\* C10: register_client has put the handle in the registry when it starts to
\* wait for the closure, and while it waits only a broadcast's removal of failed
\* handles takes the handle out; once the closure is reported the handle is eventually
\* out of the registry; and once register_client has finished the handle is
\* never in the registry again.
ClosureRemoval ==
    \A h \in Handles :
        /\ [](cpc[h] = "waiting" => h \in ws_clients \/ h \in pruned)
        /\ (cpc[h] = "closing") ~> (h \notin ws_clients)
        /\ [](cpc[h] = "done" => h \notin ws_clients)

\* register_client has finished for a handle that a broadcast still in progress
\* holds in its copy of the registry.
ClosedDuringBroadcast ==
    \E h \in Handles, r \in Records :
        /\ cpc[h] = "done"
        /\ InProgress(r)
        /\ h \in snapReg[r]

-----------------------------------------------------------------------------
\* C11: the removal after a closure (app.py:166-168) and the removal of failed
\* handles by a broadcast (app.py:197-200) may target the same handle in either
\* order: each takes out of the registry the handles it targets, whether they
\* are still in it or not, changes the membership of no other handle, and ends
\* normally.
RacingRemovalIdempotent ==
    [][ /\ \A h \in Handles :
             (cpc[h] = "closing" /\ cpc'[h] # "closing") =>
                 /\ cpc'[h] = "done"
                 /\ ws_clients' = ws_clients \ {h}
        /\ \A r \in Records :
             (bpc[r] = "removing" /\ bpc'[r] # "removing") =>
                 /\ bpc'[r] = "done"
                 /\ ws_clients' = ws_clients \ disconnected[r]
      ]_vars

\* Both removals have targeted one handle, and another handle is registered.
RemovedTwice ==
    \E h, k \in Handles :
        /\ cpc[h] = "done"
        /\ h \in pruned
        /\ h \notin ws_clients
        /\ k \in ws_clients

-----------------------------------------------------------------------------
\* C12: a broadcast that starts while broadcasting is disabled or the registry
\* is empty returns in that same step without a send and without a change of
\* the registry; and a call of broadcast_signal_async made while broadcasting
\* is disabled returns at once: it starts no thread and no loop, and runs or
\* posts no broadcast.
NoOpBroadcast ==
    [][ \A r \in Records :
          /\ ( /\ bpc[r] \in {"none", "queued"}
               /\ bpc'[r] \notin {"none", "queued"}
               /\ ~WS_ENABLED \/ ws_clients = {} ) =>
                 /\ bpc'[r] = "done"
                 /\ ws_clients' = ws_clients
                 /\ attempts'[r] = [h \in Handles |-> 0]
                 /\ sendCtx'[r] = {}
          /\ (~WS_ENABLED /\ pc[r] = "idle" /\ pc'[r] # "idle") =>
                 /\ pc'[r] = "ret"
                 /\ bpc' = bpc /\ queue' = queue /\ runs' = runs
                 /\ thread' = thread
                 /\ broadcast_loop' = broadcast_loop
                 /\ broadcast_loop_thread' = broadcast_loop_thread
                 /\ ws_clients' = ws_clients
      ]_vars

\* A broadcast has returned and no client was ever connected.
ReturnedOnEmptyRegistry ==
    \E r \in Records :
        /\ bpc[r] = "done"
        /\ runs[r] = 1
        /\ \A h \in Handles : cpc[h] = "absent"

-----------------------------------------------------------------------------
\* C13: while broadcasting is enabled, a call of broadcast_signal_async that
\* began when the dispatch loop had run and stopped has, once it is past
\* app.py:233-234, started a new dispatch thread.
RestartAfterCrash ==
    WS_ENABLED =>
        \A r \in Records :
            (foundDead[r] /\ pc[r] \in {"l237", "l238", "l241", "ret"}) =>
                \E t \in ThreadIds : thread[t] \in {"alive", "loopset", "running"}

-----------------------------------------------------------------------------
\* C14: map_ticker(t) returns t when t is empty or the sentinel; otherwise the
\* table's value for the upper case of t when that is a key of the table;
\* otherwise t itself, in its own case.  The call leaves the table unchanged.
MapTickerResult ==
    [][ (ticker' # ticker \/ mapped_ticker' # mapped_ticker) =>
            /\ ticker_mapping' = ticker_mapping
            /\ mapped_ticker' =
                   IF ticker' = << >> \/ ticker' = Sentinel THEN ticker'
                   ELSE IF Upper(ticker') \in DOMAIN ticker_mapping
                        THEN ticker_mapping[Upper(ticker')]
                        ELSE ticker'
      ]_vars

\* A ticker in lower case was mapped through the upper-case key of the table.
LowerCaseMapped ==
    /\ ticker = << "g", "c" >>
    /\ << "G", "C" >> \in DOMAIN ticker_mapping
    /\ mapped_ticker = ticker_mapping[<< "G", "C" >>]
    /\ mapped_ticker # ticker

\* C15: after load_ticker_mapping, with TICKER_MAPPING unset or a JSON object,
\* every key of the table is an upper-case symbol; a symbol that TICKER_MAPPING
\* defines has the value given there; a symbol defined only by the file has the
\* file's value; a symbol defined only by the defaults has the default value.
LayeredTable ==
    (load_state = "loaded" /\ TICKER_MAPPING.kind \in {"unset", "object"}) =>
        LET env == IF TICKER_MAPPING.kind = "object" THEN TICKER_MAPPING.val ELSE EmptyDict
            envSymbols == { Upper(k) : k \in DOMAIN env }
            lower == FileLayer(config_file)
        IN /\ \A k \in DOMAIN ticker_mapping : k = Upper(k)
           /\ \A k \in DOMAIN env : /\ Upper(k) \in DOMAIN ticker_mapping
                                    /\ ticker_mapping[Upper(k)] = env[k]
           /\ \A k \in DOMAIN lower \ envSymbols : /\ k \in DOMAIN ticker_mapping
                                                   /\ ticker_mapping[k] = lower[k]

\* C16: with a TICKER_MAPPING that is set and is not a JSON object (text that
\* does not parse, or JSON that is no object), load_ticker_mapping raises
\* nothing and leaves the table of the defaults and the file.
BadEnvIgnored ==
    TICKER_MAPPING.kind \notin {"unset", "object"} =>
        /\ load_state \in {"boot", "loaded"}
        /\ load_state = "loaded" => ticker_mapping = FileLayer(config_file)

\* C17: every webhook request with a JSON object as body is answered 200 after
\* exactly one call of broadcast_signal_async for its record, whatever its
\* price and interval and whatever the sends do; a price or an interval that
\* does not parse is carried as null.
WebhookAlwaysSucceeds ==
    \A r \in Records :
        response[r] \notin {"none", "pending"} =>
            /\ response[r] = "200"
            /\ WS_ENABLED => pc[r] = "ret"
            /\ (data[r].price.kind = "str" /\ ParseFloat(data[r].price.val).raised # "no")
                   => signal_data[r].Price = Null
            /\ (data[r].interval.kind = "str" /\ ParseInt(data[r].interval.val).raised # "no")
                   => signal_data[r].Interval = Null

\* C18: once the handler has built the payload of a request, a price that is
\* a number or a numeric string is the payload's Price, and an interval that
\* is an integer or an integer string is the payload's Interval, zero
\* included.
NumericCarried ==
    \A r \in Records :
        response[r] \in {"pending", "200"} =>
            LET price == data[r].price
                interval == data[r].interval
                Price == signal_data[r].Price
                Interval == signal_data[r].Interval
                given == IF price.kind = "str" THEN ParseFloat(price.val).val ELSE price
                wanted == IF interval.kind = "str" THEN ParseInt(interval.val).val ELSE interval
            IN /\ (\/ price.kind \in {"int", "float"}
                   \/ price.kind = "str" /\ ParseFloat(price.val).raised = "no")
                      => /\ Price.kind = "float"
                         /\ Price.val[1] * given.val[2] = given.val[1] * Price.val[2]
               /\ (\/ interval.kind = "int"
                   \/ interval.kind = "str" /\ ParseInt(interval.val).raised = "no")
                      => /\ Interval.kind = "int"
                         /\ Interval.val = wanted.val

\* C19: for a client that stays registered and two records A and B such that
\* the call for A returned before the call for B began, the send of A to the
\* client begins before the send of B to it: B's coroutine has begun no send
\* to a handle that A's coroutine holds in its copy and has yet to send to.
SendOrderFollowsSubmission ==
    \A A \in Records, B \in Records, h \in Handles :
        (/\ A \in retBefore[B]
         /\ attempts[B][h] > 0
         /\ h \in ws_clients /\ Open(h) /\ h \notin FailedHandles)
            => ~(bpc[A] = "sending" /\ h \in snapReg[A] /\ attempts[A][h] = 0)

\* C20: no registration is lost.  register_client's insertion adds its handle
\* and takes none out, whatever the broadcasts are doing; and a handle leaves
\* the registry only when its own closure was detected (app.py:166-168) or
\* when a broadcast that held it in its copy and whose send to it failed
\* removes its failed handles (app.py:197-200).
NoLostRegistration ==
    [][ /\ \A h \in Handles :
             (cpc[h] = "absent" /\ cpc'[h] # "absent") => ws_clients' = ws_clients \cup {h}
        /\ \A h \in ws_clients \ ws_clients' :
             \/ cpc[h] = "closing" /\ cpc'[h] = "done"
             \/ \E r \in Records :
                    /\ bpc[r] = "removing" /\ bpc'[r] = "done"
                    /\ h \in snapReg[r]
                    /\ h \in Attempted(r) \ delivered[r]
      ]_vars

\* A broadcast is about to remove its failed handles while a handle that was
\* registered after the broadcast copied the registry waits for its closure.
RegisteredDuringBroadcast ==
    \E r \in Records, h \in Handles :
        /\ bpc[r] = "removing"
        /\ disconnected[r] # {}
        /\ Open(h)
        /\ h \in ws_clients \ snapReg[r]

=============================================================================
